---- MODULE Spec2Model ----
(***************************************************************************)
(* Model of the matrix multiplication kernels of src/src/lib.rs:           *)
(*   Matrix<ROWS, COLS>          a ROWS x COLS grid of f64                 *)
(*   multiply(a, b, target)      the single-threaded triple loop           *)
(*   multiply_parallel(a, b, num_threads, target)                          *)
(*                               one rayon task per row of target          *)
(* A process owns three matrices a, b and target and calls the kernels a   *)
(* bounded number of times.  f64 arithmetic is modelled by a small binary  *)
(* floating-point format (MantBits significant bits, round to nearest,     *)
(* ties to even) so that addition is not associative, as in IEEE-754.      *)
(***************************************************************************)
EXTENDS Integers, Sequences, FiniteSets, TLC

VARIABLES a, b, target, pc, kernel, num_threads, globalPool, tasks,
          writers, starts, entryTarget, calls

vars == <<a, b, target, pc, kernel, num_threads, globalPool, tasks,
          writers, starts, entryTarget, calls>>

\* ---------------------------------------------------------------- bounds
\* Largest row or column count of a matrix.
MaxDim == 3
\* Seeds of the process's random source are 0..MaxSeed.
MaxSeed == 1
\* Kernel calls one process makes.
MaxCalls == 2
\* Significant bits of the modelled floating-point format (f64 has 53).
MantBits == 4
\* Logical CPUs of the machine are 1..MaxCpus (rayon's default pool size).
MaxCpus == 2

\* Worker counts a caller passes: the harness's 50 and 10, the spec's
\* 1 and 2, and 0.
WorkerCounts == {0, 1, 2, 10, 50}

\* ------------------------------------------------------- f64 arithmetic
RECURSIVE Pow2(_)
Pow2(n) == IF n = 0 THEN 1 ELSE 2 * Pow2(n - 1)

\* The spacing of representable values around x >= 0.
RECURSIVE UlpFrom(_, _)
UlpFrom(x, q) == IF x < q * Pow2(MantBits) THEN q ELSE UlpFrom(x, 2 * q)

\* x rounded to MantBits significant bits, nearest, ties to even.
Fl(x) ==
    LET q == UlpFrom(x, 1)
        r == x % q
        down == x - r
    IN  IF r = 0 THEN x
        ELSE IF 2 * r < q THEN down
        ELSE IF 2 * r > q THEN down + q
        ELSE IF (down \div q) % 2 = 0 THEN down ELSE down + q

FAdd(x, y) == Fl(x + y)
FMul(x, y) == Fl(x * y)

\* ---------------------------------------------------------------- Matrix
Rows(m) == Cardinality(DOMAIN m)
Cols(m) == Cardinality(DOMAIN m[0])

\* Matrix::zeros
zeros(r, c) == [i \in 0..(r - 1) |-> [j \in 0..(c - 1) |-> 0]]

\* The n-th state of the process's random source started from seed.
RECURSIVE RngState(_, _)
RngState(seed, n) ==
    IF n = 0 THEN (seed * 11 + 3) % 32
    ELSE (RngState(seed, n - 1) * 13 + 7) % 32

\* rng.random::<f64>() * 10.0 : the n-th draw, scaled to [0, 10).
RngDraw(seed, n) == Fl((RngState(seed, n) * 10) \div 32)

\* Matrix::random, filling row by row from the draws first, first+1, ...
random(seed, first, r, c) ==
    [i \in 0..(r - 1) |-> [j \in 0..(c - 1) |-> RngDraw(seed, first + i * c + j)]]

\* The const generics a call site instantiates: a : Matrix<INNER, COLS>,
\* b : Matrix<ROWS, INNER>, target : Matrix<ROWS, INNER>.
ROWS == Rows(b)
INNER == Cols(b)
COLS == Cols(a)

\* The call compiles iff the three argument types unify with the signature.
TypeChecks ==
    /\ Rows(a) = INNER
    /\ Rows(target) = ROWS
    /\ Cols(target) = INNER

Mem == [a |-> a, b |-> b, target |-> target]

\* m.0[i][j] is inside the array (Rust panics otherwise).
InBounds(m, i, j) == i \in DOMAIN m /\ j \in DOMAIN m[i]

\* ------------------------------------------------------------- multiply
\* lib.rs 54-57: let mut sum = 0.0; for k in 0..INNER { sum += a[i][k] * b[k][j] }
RECURSIVE SeqCellFrom(_, _, _, _, _)
SeqCellFrom(mem, i, j, k, sum) ==
    IF k = Cols(mem.b) THEN [oob |-> FALSE, sum |-> sum]
    ELSE IF ~InBounds(mem.a, i, k) \/ ~InBounds(mem.b, k, j)
         THEN [oob |-> TRUE, sum |-> sum]
         ELSE SeqCellFrom(mem, i, j, k + 1,
                          FAdd(sum, FMul(mem.a[i][k], mem.b[k][j])))

SeqCell(mem, i, j) == SeqCellFrom(mem, i, j, 0, 0)

\* SeqWrite adding to the cell instead of overwriting it.
SeqWriteAccumulate(mem, i, j, sum) ==
    [mem EXCEPT !.target[i][j] = FAdd(@, sum)]

\* lib.rs 58: target.0[i][j] = sum
SeqWrite(mem, i, j, sum) == [mem EXCEPT !.target[i][j] = sum]

\* lib.rs 52-60: the loops over i in 0..ROWS and j in 0..COLS, cell n onwards.
RECURSIVE MultiplyFrom(_, _)
MultiplyFrom(mem, n) ==
    LET rows == Rows(mem.b)
        cols == Cols(mem.a)
    IN  IF n = rows * cols THEN [status |-> "ok", mem |-> mem]
        ELSE LET i == n \div cols
                 j == n % cols
                 c == SeqCell(mem, i, j)
             IN  IF c.oob \/ ~InBounds(mem.target, i, j)
                 THEN [status |-> "panic", mem |-> mem]
                 ELSE MultiplyFrom(SeqWrite(mem, i, j, c.sum), n + 1)

Multiply(mem) == MultiplyFrom(mem, 0)

\* ---------------------------------------------------- multiply_parallel
\* lib.rs 72-77: the accumulator of one cell in a row task.
RECURSIVE ParCellFrom(_, _, _, _, _)
ParCellFrom(mem, i, j, k, sum) ==
    IF k = Cols(mem.b) THEN [oob |-> FALSE, sum |-> sum]
    ELSE IF ~InBounds(mem.a, i, k) \/ ~InBounds(mem.b, k, j)
         THEN [oob |-> TRUE, sum |-> sum]
         ELSE ParCellFrom(mem, i, j, k + 1,
                          FAdd(sum, FMul(mem.a[i][k], mem.b[k][j])))

\* ParCell accumulating with k descending from INNER - 1.
RECURSIVE ParCellDown(_, _, _, _, _)
ParCellDown(mem, i, j, k, sum) ==
    IF k < 0 THEN [oob |-> FALSE, sum |-> sum]
    ELSE IF ~InBounds(mem.a, i, k) \/ ~InBounds(mem.b, k, j)
         THEN [oob |-> TRUE, sum |-> sum]
         ELSE ParCellDown(mem, i, j, k - 1,
                          FAdd(sum, FMul(mem.a[i][k], mem.b[k][j])))

ParCellDescending(mem, i, j) == ParCellDown(mem, i, j, Cols(mem.b) - 1, 0)

ParCell(mem, i, j) == ParCellFrom(mem, i, j, 0, 0)

\* ParWrite storing through a instead of target.
ParWriteIntoA(mem, row, j, sum) ==
    IF InBounds(mem.a, row, j) THEN [mem EXCEPT !.a[row][j] = sum] ELSE mem

\* lib.rs 78: *elem = sum, elem being element j of the task's row.
ParWrite(mem, row, j, sum) == [mem EXCEPT !.target[row][j] = sum]

\* TaskRow handing every task the first row.
TaskRowFirst(i) == 0

\* lib.rs 70: par_iter_mut().enumerate() pairs index i with row i of target.
TaskRow(i) == i

\* lib.rs 70: one task per row of target.
RowTasks == DOMAIN target

\* lib.rs 71: row.iter_mut().enumerate() visits every element of the row.
RowLen(i) == Cardinality(DOMAIN target[TaskRow(i)])

\* lib.rs 65-68: ThreadPoolBuilder::new().num_threads(n).build_global().ok()
\* The global pool is built once per process; a later build_global fails and
\* .ok() drops the error.  num_threads(0) asks for rayon's default size.
BuildGlobal(pool, n, cpus) ==
    IF pool # 0 THEN pool
    ELSE IF n = 0 THEN cpus ELSE n

Running == {i \in RowTasks : tasks[i].st = "running"}
Panicked == {i \in RowTasks : tasks[i].st = "panicked"}

\* A worker of the pool is free to take a task.
WorkerFree == Cardinality(Running) < globalPool

\* JoinReady satisfied by the first task that completes.
JoinReadyAny == \E i \in RowTasks : tasks[i].st = "done"

\* JoinReady waiting for one completion per worker of the pool.
JoinReadyPerWorker ==
    \A w \in 0..(globalPool - 1) : w \in RowTasks /\ tasks[w].st = "done"

\* lib.rs 70: for_each returns once every task has completed.
JoinReady == \A i \in RowTasks : tasks[i].st = "done"

FreshTasks == [i \in DOMAIN target |-> [st |-> "pending", j |-> 0]]
NoWriters == [i \in DOMAIN target |-> [j \in DOMAIN target[i] |-> {}]]
NoStarts == [i \in DOMAIN target |-> 0]

\* ------------------------------------------------------------------ Init
Shapes == (1..MaxDim) \X (1..MaxDim)

Init ==
    \E seed \in 0..MaxSeed, sa \in Shapes, sb \in Shapes, st \in Shapes,
       zeroed \in BOOLEAN :
        /\ a = random(seed, 0, sa[1], sa[2])
        /\ b = random(seed, sa[1] * sa[2], sb[1], sb[2])
        /\ target = IF zeroed THEN zeros(st[1], st[2])
                    ELSE random(seed, sa[1] * sa[2] + sb[1] * sb[2], st[1], st[2])
        /\ pc = "idle"
        /\ kernel = "none"
        /\ num_threads = 0
        /\ globalPool = 0
        /\ tasks = FreshTasks
        /\ writers = NoWriters
        /\ starts = NoStarts
        /\ entryTarget = target
        /\ calls = 0

CanCall == pc \in {"idle", "returned"} /\ calls < MaxCalls

\* lib.rs 47-61: the whole sequential call, on the calling thread.  A call
\* whose argument types do not unify with the signature does not compile.
multiply ==
    /\ CanCall
    /\ kernel' = "seq"
    /\ IF TypeChecks
       THEN LET r == Multiply(Mem)
            IN  /\ a' = r.mem.a
                /\ b' = r.mem.b
                /\ target' = r.mem.target
                /\ pc' = IF r.status = "ok" THEN "returned" ELSE "panicked"
                /\ entryTarget' = target
                /\ calls' = calls + 1
                /\ tasks' = FreshTasks
                /\ writers' = NoWriters
                /\ starts' = NoStarts
       ELSE /\ pc' = "rejected"
            /\ UNCHANGED <<a, b, target, entryTarget, calls, tasks, writers,
                           starts>>
    /\ UNCHANGED <<num_threads, globalPool>>

\* lib.rs 64-70: entry of the parallel call: build the pool, dispatch rows.
multiply_parallel(n) ==
    /\ CanCall
    /\ kernel' = "par"
    /\ num_threads' = n
    /\ IF TypeChecks
       THEN /\ \E cpus \in 1..MaxCpus :
                  globalPool' = BuildGlobal(globalPool, n, cpus)
            /\ pc' = "running"
            /\ entryTarget' = target
            /\ calls' = calls + 1
            /\ tasks' = FreshTasks
            /\ writers' = NoWriters
            /\ starts' = NoStarts
       ELSE /\ pc' = "rejected"
            /\ UNCHANGED <<globalPool, entryTarget, calls, tasks, writers,
                           starts>>
    /\ UNCHANGED <<a, b, target>>

\* A free worker takes row task i.
StartRow(i) ==
    /\ pc = "running"
    /\ tasks[i].st = "pending"
    /\ WorkerFree
    /\ tasks' = [tasks EXCEPT ![i].st = "running"]
    /\ starts' = [starts EXCEPT ![TaskRow(i)] = @ + 1]
    /\ UNCHANGED <<a, b, target, pc, kernel, num_threads, globalPool,
                   writers, entryTarget, calls>>

\* lib.rs 71-79: task i computes and stores its next element, or panics on
\* an index out of bounds.
RowStep(i) ==
    /\ pc = "running"
    /\ tasks[i].st = "running"
    /\ LET j == tasks[i].j
           c == ParCell(Mem, i, j)
           m == ParWrite(Mem, TaskRow(i), j, c.sum)
       IN  IF c.oob
           THEN /\ tasks' = [tasks EXCEPT ![i].st = "panicked"]
                /\ UNCHANGED <<a, b, target, writers>>
           ELSE /\ a' = m.a
                /\ b' = m.b
                /\ target' = m.target
                /\ writers' = [writers EXCEPT ![TaskRow(i)][j] = @ \cup {i}]
                /\ tasks' = [tasks EXCEPT ![i] =
                                IF j + 1 = RowLen(i)
                                THEN [st |-> "done", j |-> j + 1]
                                ELSE [st |-> "running", j |-> j + 1]]
    /\ UNCHANGED <<pc, kernel, num_threads, globalPool, starts,
                   entryTarget, calls>>

\* After a panic, a row still pending in the panicking task's chunk is
\* never run.
SkipRow(i) ==
    /\ pc = "running"
    /\ tasks[i].st = "pending"
    /\ Panicked # {}
    /\ tasks' = [tasks EXCEPT ![i].st = "skipped"]
    /\ UNCHANGED <<a, b, target, pc, kernel, num_threads, globalPool,
                   writers, starts, entryTarget, calls>>

\* lib.rs 80-81: for_each has joined every task; the call returns.
Join ==
    /\ pc = "running"
    /\ JoinReady
    /\ pc' = "returned"
    /\ UNCHANGED <<a, b, target, kernel, num_threads, globalPool, tasks,
                   writers, starts, entryTarget, calls>>

\* A task panicked: once no task is pending or running the panic resumes
\* in the caller.
Unwind ==
    /\ pc = "running"
    /\ Panicked # {}
    /\ \A i \in RowTasks : tasks[i].st \in {"done", "panicked", "skipped"}
    /\ pc' = "panicked"
    /\ UNCHANGED <<a, b, target, kernel, num_threads, globalPool, tasks,
                   writers, starts, entryTarget, calls>>

Next ==
    \/ multiply
    \/ \E n \in WorkerCounts : multiply_parallel(n)
    \/ \E i \in RowTasks : StartRow(i)
    \/ \E i \in RowTasks : RowStep(i)
    \/ \E i \in RowTasks : SkipRow(i)
    \/ Join
    \/ Unwind

Spec == Init /\ [][Next]_vars

\* A step of the running parallel call: a worker takes or advances a row
\* task, or the caller resumes from the join.
Progress ==
    \/ \E i \in RowTasks : StartRow(i)
    \/ \E i \in RowTasks : RowStep(i)
    \/ Join
    \/ Unwind

\* Fairness: the pool's worker threads and the joining caller are OS threads
\* that keep running while they have something to do.
FairSpec == Init /\ [][Next]_vars /\ WF_vars(Progress)

\* ---------------------------------------------------------------- claims
\* a, b and target are n x n for one n.
Square ==
    /\ Rows(a) = Cols(a)
    /\ Rows(b) = Rows(a) /\ Cols(b) = Rows(a)
    /\ Rows(target) = Rows(a) /\ Cols(target) = Rows(a)

\* a is (m, k), b is (k, n) and target is (m, n).
ShapesValid ==
    /\ Cols(a) = Rows(b)
    /\ Rows(target) = Rows(a)
    /\ Cols(target) = Cols(b)

\* The sum over p = 0 .. k-1, p ascending from 0, of a[i][p] * b[p][j].
RECURSIVE Dot(_, _, _, _)
Dot(i, j, p, sum) ==
    IF p = Cols(a) THEN sum
    ELSE Dot(i, j, p + 1, FAdd(sum, FMul(a[i][p], b[p][j])))

Product ==
    [i \in 0..(Rows(a) - 1) |-> [j \in 0..(Cols(b) - 1) |-> Dot(i, j, 0, 0)]]

\* What one sequential call leaves in a target that held t at entry.
SequentialOn(t) == Multiply([a |-> a, b |-> b, target |-> t])

\* What one parallel call leaves in a target that held t at entry, the row
\* tasks run one after the other.
RECURSIVE ParallelFrom(_, _)
ParallelFrom(mem, n) ==
    LET len == Cols(mem.target)
    IN  IF n = Rows(mem.target) * len THEN mem
        ELSE ParallelFrom(ParWrite(mem, TaskRow(n \div len), n % len,
                                   ParCell(mem, n \div len, n % len).sum),
                          n + 1)

ParallelOn(t) == ParallelFrom([a |-> a, b |-> b, target |-> t], 0)

CallEnded == kernel # "none" /\ pc \in {"returned", "panicked", "rejected"}

\* C1: on square matrices and for W in {1, 2, 10, 50}, whatever the order in
\* which the row tasks ran, a returned multiply_parallel leaves target equal,
\* cell for cell, to what multiply leaves on the same a, b and entry target.
C1_ParallelEqualsSequential ==
    (pc = "returned" /\ kernel = "par" /\ Square
        /\ num_threads \in {1, 2, 10, 50})
    => /\ SequentialOn(entryTarget).status = "ok"
       /\ target = SequentialOn(entryTarget).mem.target

C1_Witness ==
    /\ pc = "returned" /\ kernel = "par" /\ Square
    /\ num_threads = 50 /\ globalPool = 50
    /\ Rows(target) = 3
    /\ target # entryTarget

\* C2: for every valid (m, k, n), square or not, multiply on a : (m, k),
\* b : (k, n), target : (m, n) returns with every target cell (i, j) holding
\* the sum over p ascending of a[i][p] * b[p][j].
C2_MultiplyAnyValidShape ==
    (kernel = "seq" /\ ShapesValid) => (pc = "returned" /\ target = Product)

\* C3: multiply_parallel returns only after every row task has completed:
\* at return no task is pending or running and every row is fully written.
C3_ReturnAfterAllRows ==
    (kernel = "par" /\ pc = "returned")
    => \A i \in RowTasks :
          /\ tasks[i].st = "done"
          /\ tasks[i].j = Cols(target)
          /\ \A j \in DOMAIN target[i] : writers[i][j] # {}

C3_Witness ==
    /\ kernel = "par" /\ pc = "returned"
    /\ Rows(target) >= 2
    /\ target # entryTarget

\* C4: every row of target belongs to exactly one row task: a row index is
\* dispatched at most once (exactly once by the time the call returns), a
\* cell is written only by the task of its row, and no two running tasks
\* hold the same row.
C4_RowOwnership ==
    /\ \A i \in RowTasks : starts[i] <= 1
    /\ (kernel = "par" /\ pc = "returned") => \A i \in RowTasks : starts[i] = 1
    /\ \A i \in RowTasks : \A j \in DOMAIN target[i] : writers[i][j] \subseteq {i}
    /\ \A s \in Running : \A t \in Running : s # t => TaskRow(s) # TaskRow(t)

C4_Witness ==
    /\ pc = "running"
    /\ Cardinality(Running) >= 2
    /\ \A i \in Running : writers[i][0] = {i} /\ tasks[i].j < Cols(target)

\* C5: a call on shapes that are not (m, k), (k, n), (m, n) ends in failure
\* with every cell of target as it was at entry: it neither returns normally
\* nor fails with target written.
C5_ShapeMismatchLeavesTarget ==
    (CallEnded /\ ~ShapesValid)
    => (pc \in {"rejected", "panicked"} /\ target = entryTarget)

\* C6: multiply_parallel with worker count 0 is rejected as a configuration
\* error: no pool is built, no row task is dispatched, target is not written.
C6_ZeroWorkersRejected ==
    (kernel = "par" /\ num_threads = 0 /\ pc # "rejected")
    => /\ pc = "config_error"
       /\ target = entryTarget
       /\ \A i \in RowTasks : starts[i] = 0

\* C7: on square matrices and for every W >= 1, also W greater than the
\* number of rows, a multiply_parallel call eventually returns with target
\* equal to the product.
C7_ParallelTerminates ==
    (pc = "running" /\ Square /\ num_threads >= 1)
    ~> (pc = "returned" /\ Square /\ target = Product)

C7_Witness ==
    /\ pc = "returned" /\ kernel = "par" /\ Square
    /\ num_threads > Rows(target) /\ globalPool > Rows(target)
    /\ Rows(target) >= 2
    /\ target = Product

\* C8: every multiply_parallel call with worker count W >= 1 runs its row
\* tasks on a pool of exactly W threads.
C8_PoolSizeIsWorkerCount ==
    (kernel = "par" /\ pc = "running" /\ num_threads >= 1)
    => globalPool = num_threads

\* C9: no step of multiply or multiply_parallel changes a cell of a or b.
C9_InputsUnchanged == [][a' = a /\ b' = b]_vars

C9_Witness ==
    /\ kernel = "par" /\ pc = "running"
    /\ Cardinality(Running) >= 2
    /\ target # entryTarget

\* C10: on square matrices the result of a kernel does not depend on what
\* target held at entry: a returned call, on a non-zeroed target or repeated
\* on its own result, leaves what one call on a zeroed target leaves.
C10_EntryTargetIrrelevant ==
    (pc = "returned" /\ Square)
    => target = IF kernel = "seq"
                THEN SequentialOn(zeros(Rows(target), Cols(target))).mem.target
                ELSE ParallelOn(zeros(Rows(target), Cols(target))).target

C10_Witness ==
    /\ pc = "returned" /\ Square
    /\ kernel = "seq"
    /\ calls = 2
    /\ entryTarget # zeros(Rows(target), Cols(target))
    /\ Rows(target) >= 2

====
